---- MODULE Spec2Model ----
(***************************************************************************)
(* State-machine model of src/script.js: the GreenMaxWebsite controller    *)
(* (theme, tabs, FAQ accordion) and the DOMContentLoaded bootstrap.        *)
(*                                                                         *)
(* Conventions                                                             *)
(*  - A JavaScript value that may be null/absent is a sequence of length   *)
(*    at most one: None is <<>>, Some(v) is <<v>>.                         *)
(*  - Strings that the code slices or concatenates (the URL fragment, tab  *)
(*    names) are sequences of one-character strings, so substring(1) and   *)
(*    `#${tabName}` are computed, not assumed.                             *)
(*  - The static page (which elements exist, their initial classes) and    *)
(*    the browser environment are inputs chosen in Init.                   *)
(***************************************************************************)
EXTENDS Integers, Sequences, FiniteSets, TLC

VARIABLES
    phase,        \* "loading" | "ready" | "failed": the DOMContentLoaded callback
    dom,          \* the static page: which elements exist
    hasMatchMedia,\* window.matchMedia is defined
    prefersDark,  \* matchMedia('(prefers-color-scheme: dark)').matches
    theme,        \* currentTheme, localStorage, body data-theme, icon, transition, timers
    tabs,         \* currentTab, active buttons/panels, location.hash, scroll target
    faq,          \* per FAQ item: active class, h4 attributes, answer max-height
    hist,         \* history: the last two handler runs, each with its pre-state
    env,          \* navigator, window size, media queries, battery: what the probes read
    opt,          \* deviceInfo, screenInfo, body classes, injected styles, listeners, timers
    clip,         \* copyToClipboard calls in progress and finished
    toasts        \* showNotification toasts and their timers

vars == <<phase, dom, hasMatchMedia, prefersDark, theme, tabs, faq, hist,
          env, opt, clip, toasts>>

----------------------------------------------------------------------------
(* Optional values and strings *)

None == <<>>

Some(v) == <<v>>

IsNone(o) == Len(o) = 0

\* JavaScript truthiness of a string-or-null value: null and '' are falsy.
Truthy(o) == ~IsNone(o) /\ o[1] # ""

\* String.prototype.substring(1) on a sequence of characters.
Substring1(s) == IF Len(s) = 0 THEN s ELSE Tail(s)

\* The template literal `#${tabName}`.
HashOf(name) == <<"#">> \o name

----------------------------------------------------------------------------
(* Bounds *)

\* Pending 300 ms timers of toggleTheme that the model lets accumulate.
MaxTimers == 2

\* Number of .faq-item elements in the page.
NumItems == 2

\* Haptic click listeners per element that the model lets accumulate.
MaxListeners == 3

\* Style elements in document.head that the model lets accumulate.
MaxStyles == 4

\* Calls of copyToClipboard.
MaxCalls == 2

\* Calls of showNotification.
MaxToasts == 3

\* Tab names, as character sequences.
general == <<"g", "e", "n", "e", "r", "a", "l">>

faqTab == <<"f", "a", "q">>

\* A tab of the page that the script's validTabs list does not name.
pricing == <<"p", "r", "i", "c", "i", "n", "g">>

\* A name that no element of the page carries.
unknown == <<"x">>

validTabs == {general, faqTab}

\* data-tab values / panel ids a page may carry.
TabNames == {general, faqTab, pricing}

\* Values of window.location.hash: '' or '#' followed by a non-empty fragment.
Hashes == {<<>>} \cup {HashOf(n) : n \in TabNames \cup {unknown}}

\* Initial contents of localStorage['greenmax-theme'].
StoredValues == {None, Some(""), Some("light"), Some("dark"), Some("blue")}

\* KeyboardEvent.key values delivered to the keydown listeners.
Keys == {"Enter", " ", "Tab"}

\* Values answer.scrollHeight may have when an item is opened.
ScrollHeights == {0, 120}

Items == 1 .. NumItems

\* window.innerWidth and innerHeight, one size per breakpoint tier.
Sizes == {<<400, 700>>, <<600, 900>>, <<800, 800>>, <<1100, 700>>, <<1300, 900>>}

\* battery.level, in percent.
BatteryLevels == {10, 80}

\* document.execCommand('copy'): its return value, or an exception.
ExecOutcomes == {"true", "false", "throws"}

\* The type argument of showNotification.
ToastTypes == {"success", "error", "info"}

----------------------------------------------------------------------------
(* History: what the last two handler runs were and the state each started *)
(* from.  It records the program's run; no handler reads it.               *)

Snap == [phase |-> phase, prefersDark |-> prefersDark, theme |-> theme,
         tabs |-> tabs, faq |-> faq]

Remember(op, arg) ==
    LET e == [op |-> op, arg |-> arg, pre |-> Snap]
    IN  IF Len(hist) = 0 THEN <<e>> ELSE <<hist[Len(hist)], e>>

----------------------------------------------------------------------------
(* Theme *)

\* themeIcon.className = ... at lines 49/52 raises a TypeError when
\* getElementById('themeIcon') returned null.
applyThemeThrows == ~dom.themeIcon

applyTheme(t) ==
    LET marked == [t EXCEPT !.dataTheme =
                       IF t.currentTheme = "dark" THEN Some("dark") ELSE None]
    IN  IF applyThemeThrows
        THEN marked
        ELSE [marked EXCEPT
                 !.iconClass = IF t.currentTheme = "dark" THEN "fas fa-sun"
                                                          ELSE "fas fa-moon",
                 !.storage = Some(t.currentTheme)]

\* Mutant of loadTheme: the system preference is not consulted.
loadThemeIgnoresSystem(t) ==
    LET savedTheme == t.storage
    IN  IF Truthy(savedTheme)
        THEN applyTheme([t EXCEPT !.currentTheme = savedTheme[1]])
        ELSE applyTheme(t)

loadTheme(t) ==
    LET savedTheme == t.storage
    IN  IF Truthy(savedTheme)
        THEN applyTheme([t EXCEPT !.currentTheme = savedTheme[1]])
        ELSE IF hasMatchMedia /\ prefersDark
             THEN applyTheme([t EXCEPT !.currentTheme = "dark"])
             ELSE applyTheme(t)

toggleTheme(t) ==
    LET flipped == [t EXCEPT !.currentTheme =
                        IF t.currentTheme = "light" THEN "dark" ELSE "light"]
        applied == applyTheme(flipped)
    IN  IF applyThemeThrows
        THEN applied
        ELSE [applied EXCEPT
                 !.transition = "background-color 0.3s ease, color 0.3s ease",
                 !.timers = @ + 1]

\* The 300 ms callback of toggleTheme.
transitionTimeout(t) == [t EXCEPT !.transition = "", !.timers = @ - 1]

\* The prefers-color-scheme 'change' listener; matches is e.matches.
colorSchemeChanged(t, matches) ==
    LET savedTheme == t.storage
    IN  IF ~Truthy(savedTheme)
        THEN applyTheme([t EXCEPT !.currentTheme =
                             IF matches THEN "dark" ELSE "light"])
        ELSE t

----------------------------------------------------------------------------
(* Tabs *)

\* Mutant of switchTab: the other buttons and panels keep their active class.
switchTabKeepsOthers(tb, tabName) ==
    IF tabName \in dom.buttons /\ tabName \in dom.panels
    THEN [tb EXCEPT !.activeButtons = @ \cup {tabName},
                    !.activePanels = @ \cup {tabName},
                    !.currentTab = tabName,
                    !.scrolledTo = Some(tabName),
                    !.hash = HashOf(tabName)]
    ELSE tb

switchTab(tb, tabName) ==
    LET cleared == [tb EXCEPT !.activeButtons = {}, !.activePanels = {}]
        activeTabButton == tabName \in dom.buttons
        activeTabPanel == tabName \in dom.panels
    IN  IF activeTabButton /\ activeTabPanel
        THEN [cleared EXCEPT !.activeButtons = {tabName},
                             !.activePanels = {tabName},
                             !.currentTab = tabName,
                             !.scrolledTo = Some(tabName),
                             !.hash = HashOf(tabName)]
        ELSE cleared

\* Mutant of initializeActiveTab: any non-empty fragment is taken as the tab.
initializeActiveTabAnyHash(tb) ==
    LET hash == Substring1(tb.hash)
    IN  IF Len(hash) > 0
        THEN switchTab(tb, hash)
        ELSE switchTab(tb, general)

initializeActiveTab(tb) ==
    LET hash == Substring1(tb.hash)
    IN  IF Len(hash) > 0 /\ hash \in validTabs
        THEN switchTab(tb, hash)
        ELSE switchTab(tb, general)

\* Mutant of hashChanged: the listener does not switch tabs.
hashChangedIgnored(tb, h) == [tb EXCEPT !.hash = h]

\* The hashchange listener; the browser has already set location.hash to h.
hashChanged(tb, h) ==
    LET moved == [tb EXCEPT !.hash = h]
        hash == Substring1(h)
    IN  IF Len(hash) > 0 /\ hash \in validTabs
        THEN switchTab(moved, hash)
        ELSE moved

\* The keydown listener of a tab button.
tabKeydown(tb, tabName, key) ==
    IF key = "Enter" \/ key = " " THEN switchTab(tb, tabName) ELSE tb

----------------------------------------------------------------------------
(* FAQ accordion *)

\* The number-to-string concatenation answer.scrollHeight + 'px'.
Px(n) == <<n, "px">>

\* The literal '0' assigned on collapse.
Zero == <<"0">>

setupFAQInteractivity(f) ==
    [i \in Items |->
        IF dom.faqH4[i]
        THEN [f[i] EXCEPT !.tabindex = Some("0"),
                          !.role = Some("button"),
                          !.ariaExpanded = Some("false")]
        ELSE f[i]]

\* Mutant of toggleFAQItem: opening an item collapses every other item.
toggleFAQItemAccordion(f, i, scrollHeight) ==
    [j \in Items |->
        IF j = i
        THEN [f[j] EXCEPT
                 !.active = ~f[i].active,
                 !.ariaExpanded =
                     IF dom.faqH4[i]
                     THEN (IF f[i].active THEN Some("false") ELSE Some("true"))
                     ELSE @,
                 !.maxHeight =
                     IF dom.faqAnswer[i]
                     THEN (IF f[i].active THEN Zero ELSE Px(scrollHeight))
                     ELSE @]
        ELSE IF f[i].active
             THEN f[j]
             ELSE [f[j] EXCEPT !.active = FALSE]]

toggleFAQItem(f, i, scrollHeight) ==
    LET isActive == f[i].active
        question == dom.faqH4[i]
        answer == dom.faqAnswer[i]
    IN  IF isActive
        THEN [f EXCEPT ![i].active = FALSE,
                       ![i].ariaExpanded = IF question THEN Some("false") ELSE @,
                       ![i].maxHeight = IF answer THEN Zero ELSE @]
        ELSE [f EXCEPT ![i].active = TRUE,
                       ![i].ariaExpanded = IF question THEN Some("true") ELSE @,
                       ![i].maxHeight = IF answer THEN Px(scrollHeight) ELSE @]

\* The keydown listener of an item's h4.
faqKeydown(f, i, key, scrollHeight) ==
    IF key = "Enter" \/ key = " " THEN toggleFAQItem(f, i, scrollHeight) ELSE f

----------------------------------------------------------------------------
(* Device and screen detection *)

\* navigator.userAgent, lower-cased, as the sequence of the words the
\* regular expressions of detectDevice look for.
UserAgents ==
    {<<"windows", "chrome">>, <<"iphone", "mobile">>, <<"ipad", "mobile">>,
     <<"android", "mobile">>, <<"android">>, <<"tablet">>}

\* RegExp.test for an alternation of plain words.
Mentions(ua, words) == \E k \in 1 .. Len(ua) : ua[k] \in words

\* /android(?!.*mobile)/: 'android' with no 'mobile' after it.
AndroidNotMobile(ua) ==
    \E k \in 1 .. Len(ua) :
        ua[k] = "android" /\ \A m \in (k + 1) .. Len(ua) : ua[m] # "mobile"

MobileWords ==
    {"android", "webos", "iphone", "ipad", "ipod", "blackberry", "iemobile",
     "opera mini"}

\* The viewport dimension above which a mobile user agent counts as a tablet.
TabletThreshold == 768

detectDevice(e) ==
    LET ua == e.userAgent
        mobile == Mentions(ua, MobileWords)
        tablet == Mentions(ua, {"ipad", "tablet"}) \/ AndroidNotMobile(ua)
        refine == mobile /\ (e.innerWidth > TabletThreshold
                               \/ e.innerHeight > TabletThreshold)
    IN  [isMobile |-> mobile /\ ~refine,
         isTablet |-> tablet \/ refine,
         isDesktop |-> ~Mentions(ua, MobileWords \cup {"tablet"}),
         isIOS |-> Mentions(ua, {"iphone", "ipad", "ipod"}),
         hasTouch |-> e.hasTouch,
         canVibrate |-> e.canVibrate,
         connection |-> e.connection,
         pixelRatio |-> IF e.pixelRatio = 0 THEN 1 ELSE e.pixelRatio]

\* Breakpoint limits of detectScreen.
BreakSmall == 480

BreakMedium == 768

BreakLarge == 1024

BreakXLarge == 1200

detectScreen(e) ==
    [width |-> e.innerWidth,
     height |-> e.innerHeight,
     isXSmall |-> e.innerWidth < BreakSmall,
     isSmall |-> e.innerWidth >= BreakSmall /\ e.innerWidth < BreakMedium,
     isMedium |-> e.innerWidth >= BreakMedium /\ e.innerWidth < BreakLarge,
     isLarge |-> e.innerWidth >= BreakLarge /\ e.innerWidth < BreakXLarge,
     isXLarge |-> e.innerWidth >= BreakXLarge,
     isPortrait |-> e.innerHeight > e.innerWidth,
     isLandscape |-> e.innerWidth > e.innerHeight]

\* this.deviceInfo = {} and this.screenInfo = {}: every property undefined,
\* which the optimizer reads as false.
EmptyDeviceInfo ==
    [isMobile |-> FALSE, isTablet |-> FALSE, isDesktop |-> FALSE,
     isIOS |-> FALSE, hasTouch |-> FALSE, canVibrate |-> FALSE,
     connection |-> FALSE, pixelRatio |-> 0]

EmptyScreenInfo ==
    [width |-> 0, height |-> 0, isXSmall |-> FALSE, isSmall |-> FALSE,
     isMedium |-> FALSE, isLarge |-> FALSE, isXLarge |-> FALSE,
     isPortrait |-> FALSE, isLandscape |-> FALSE]

----------------------------------------------------------------------------
(* Interface optimizer *)

\* document.querySelector('#id') followed by remove(): the first style
\* element of document.head with the id leaves the document, if there is one.
RemoveFirst(styles, id) ==
    LET hits == {k \in 1 .. Len(styles) : styles[k].id = id}
    IN  IF hits = {}
        THEN styles
        ELSE LET k == CHOOSE h \in hits : \A m \in hits : h <= m
             IN  SubSeq(styles, 1, k - 1) \o SubSeq(styles, k + 1, Len(styles))

\* Mutant of ReplaceStyle: the new style element is appended beside the old.
AppendStyle(styles, id, css) == Append(styles, [id |-> id, css |-> css])

\* remove-if-present, then document.head.appendChild(style).
ReplaceStyle(styles, id, css) ==
    Append(RemoveFirst(styles, id), [id |-> id, css |-> css])

\* Number of style elements of document.head with the id.
StyleCount(styles, id) == Cardinality({k \in 1 .. Len(styles) : styles[k].id = id})

DeviceClasses == {"device-mobile", "device-tablet", "device-desktop"}

TouchClasses == {"touch-device", "no-touch"}

OrientationClasses == {"orientation-portrait", "orientation-landscape"}

ScreenClasses == {"screen-xs", "screen-sm", "screen-md", "screen-lg", "screen-xl"}

optimizeTouchInteractions(o) ==
    IF ~o.deviceInfo.hasTouch
    THEN o
    ELSE [o EXCEPT
             !.styles = ReplaceStyle(@, "touch-optimization", {"touch-targets"}),
             !.hapticListeners = IF o.deviceInfo.canVibrate THEN @ + 1 ELSE @]

optimizeScrolling(o) ==
    [o EXCEPT
        !.overflowScrolling = IF o.deviceInfo.isIOS THEN "touch" ELSE @,
        !.scrollBehavior = IF o.deviceInfo.isMobile THEN "auto" ELSE "smooth"]

\* window.matchMedia && matchMedia('(prefers-reduced-motion: reduce)').matches
prefersReducedMotion(e) == hasMatchMedia /\ e.reducedMotion

optimizePerformance(o, e) ==
    LET isLowEndDevice ==
            \/ o.deviceInfo.pixelRatio <= 1
            \/ (o.deviceInfo.connection /\ e.saveData)
    IN  IF isLowEndDevice \/ prefersReducedMotion(e)
        THEN [o EXCEPT !.styles =
                 ReplaceStyle(@, "performance-optimization", {"short-animations"})]
        ELSE o

adjustLayoutForScreen(o) ==
    LET css ==
            (IF o.deviceInfo.isMobile THEN {"mobile"} ELSE {})
            \cup (IF o.deviceInfo.isTablet THEN {"tablet"} ELSE {})
            \cup (IF o.deviceInfo.isMobile /\ o.screenInfo.isLandscape
                  THEN {"mobile-landscape"} ELSE {})
            \cup (IF o.deviceInfo.pixelRatio > 2 THEN {"high-dpi"} ELSE {})
    IN  [o EXCEPT !.styles = ReplaceStyle(@, "layout-optimization", css)]

\* The classes optimizeInterface adds (lines 352-378).
ChosenClasses(o) ==
    LET device == IF o.deviceInfo.isMobile THEN "device-mobile"
                  ELSE IF o.deviceInfo.isTablet THEN "device-tablet"
                  ELSE "device-desktop"
        touch == IF o.deviceInfo.hasTouch THEN "touch-device" ELSE "no-touch"
        orientation == IF o.screenInfo.isPortrait THEN "orientation-portrait"
                       ELSE "orientation-landscape"
        size == IF o.screenInfo.isXSmall THEN "screen-xs"
                ELSE IF o.screenInfo.isSmall THEN "screen-sm"
                ELSE IF o.screenInfo.isMedium THEN "screen-md"
                ELSE IF o.screenInfo.isLarge THEN "screen-lg"
                ELSE "screen-xl"
    IN  {device, touch, orientation, size}

\* Mutant of MarkerClasses: the previous classes are not removed first.
MarkerClassesKept(o) == o.bodyClasses \cup ChosenClasses(o)

\* The class changes of optimizeInterface: remove the classes of the four
\* groups (lines 349 and 371-372), then add the chosen ones.
MarkerClasses(o) ==
    LET kept == (o.bodyClasses \ (DeviceClasses \cup TouchClasses
                                     \cup OrientationClasses)) \ ScreenClasses
    IN  kept \cup ChosenClasses(o)

optimizeInterface(o, e) ==
    LET classed == [o EXCEPT !.bodyClasses = MarkerClasses(o)]
    IN  adjustLayoutForScreen(
            optimizePerformance(
                optimizeScrolling(optimizeTouchInteractions(classed)), e))

\* The body of the resize and orientationchange timer callbacks.
recompute(o, e) == optimizeInterface([o EXCEPT !.screenInfo = detectScreen(e)], e)

\* The haptic click listeners of an element run: one navigator.vibrate(10)
\* per listener that optimizeTouchInteractions added (lines 425-427).
clicked(o) == [o EXCEPT !.vibrateCalls = o.hapticListeners]

\* Mutant of resized: the pending timer is not cleared.
resizedNoClear(o) ==
    [o EXCEPT !.resizePending = @ + 1, !.resizeHandleLive = TRUE]

\* The resize listener: clearTimeout(resizeTimeout), then a new 150 ms timer.
resized(o) ==
    [o EXCEPT !.resizePending = (IF o.resizeHandleLive THEN @ - 1 ELSE @) + 1,
              !.resizeHandleLive = TRUE]

\* A resize timer fires (the oldest first); resizeTimeout refers to the
\* newest, which is still pending when others are.
resizeFired(o) ==
    [o EXCEPT !.resizePending = @ - 1,
              !.resizeHandleLive = @ /\ o.resizePending > 1]

\* battery.level < 0.2, with the level in percent.
BatteryLowPercent == 20

\* optimizeForBattery (lines 567-585)
optimizeForBattery(o, e) ==
    IF e.batteryLevel < BatteryLowPercent \/ ~e.charging
    THEN [o EXCEPT !.bodyClasses = @ \cup {"low-battery"},
                   !.styles = Append(@, [id |-> "battery-optimization",
                                         css |-> {"no-animations"}])]
    ELSE [o EXCEPT !.bodyClasses = @ \ {"low-battery"},
                   !.styles = RemoveFirst(@, "battery-optimization")]

\* The listener registrations of setupDynamicOptimization; getBattery() is
\* asynchronous, its then-callback is the BatteryReady action.
setupDynamicOptimization(o, e) ==
    [o EXCEPT !.connectionListener = o.deviceInfo.connection,
              !.batteryRequested = e.hasBattery]

----------------------------------------------------------------------------
(* Utility functions: copyToClipboard and showNotification *)

\* The else branch of copyToClipboard: the textarea is appended, execCommand
\* runs and, unless it raised, the textarea is removed and the result is
\* returned; an exception goes to the catch clause, which returns false.
copyFallback(call) ==
    [call EXCEPT !.fallback = TRUE,
                 !.textAreaInPage = (call.exec = "throws"),
                 !.value = Some(call.exec = "true"),
                 !.stage = "settled"]

\* copyToClipboard up to its first await; api is
\* navigator.clipboard && window.isSecureContext, exec the behaviour of
\* document.execCommand in this browser.
copyToClipboard(api, exec) ==
    LET call == [api |-> api, exec |-> exec, stage |-> "awaiting",
                 write |-> "none", fallback |-> FALSE,
                 textAreaInPage |-> FALSE, value |-> None, raised |-> FALSE]
    IN  IF api THEN [call EXCEPT !.write = "pending"] ELSE copyFallback(call)

\* Mutant of writeSettled: a rejected write escapes the function.
writeSettledRaises(call, fulfilled) ==
    IF fulfilled
    THEN [call EXCEPT !.write = "fulfilled", !.value = Some(TRUE),
                      !.stage = "settled"]
    ELSE [call EXCEPT !.write = "rejected", !.raised = TRUE,
                      !.stage = "settled"]

\* Mutant of writeSettled: a rejected write is followed by the fallback.
writeSettledFallsBack(call, fulfilled) ==
    IF fulfilled
    THEN [call EXCEPT !.write = "fulfilled", !.value = Some(TRUE),
                      !.stage = "settled"]
    ELSE copyFallback([call EXCEPT !.write = "rejected"])

\* copyToClipboard after the await: return true, or the catch clause.
writeSettled(call, fulfilled) ==
    [call EXCEPT !.write = IF fulfilled THEN "fulfilled" ELSE "rejected",
                 !.value = Some(fulfilled),
                 !.stage = "settled"]

\* The backgroundColor showNotification picks for a type.
ToastColor(type) ==
    IF type = "success" THEN "#27ae60"
    ELSE IF type = "error" THEN "#e74c3c" ELSE "#3498db"

\* showNotification: the element is appended and two timers are set.
showNotification(type) ==
    [type |-> type, color |-> ToastColor(type), inPage |-> TRUE,
     transform |-> "translateX(100%)", animatePending |-> TRUE,
     dismissPending |-> TRUE, removePending |-> FALSE, removals |-> 0]

\* the 100 ms callback
animateIn(t) == [t EXCEPT !.transform = "translateX(0)", !.animatePending = FALSE]

\* Mutant of dismiss: the removal timer is not set.
dismissWithoutRemoval(t) ==
    [t EXCEPT !.transform = "translateX(100%)", !.dismissPending = FALSE]

\* the 3000 ms callback
dismiss(t) ==
    [t EXCEPT !.transform = "translateX(100%)", !.dismissPending = FALSE,
              !.removePending = TRUE]

\* the 300 ms callback: removeChild if document.body.contains(notification)
remove(t) ==
    [t EXCEPT !.removePending = FALSE,
              !.inPage = FALSE,
              !.removals = IF t.inPage THEN @ + 1 ELSE @]

----------------------------------------------------------------------------
(* The DOMContentLoaded callback: new GreenMaxWebsite() (whose constructor  *)
(* runs init()), then the error and hashchange listeners.  An exception     *)
(* raised inside the constructor ends the callback: nothing after the       *)
(* raising statement runs and no later listener is attached.                *)

\* detectDevice calls window.matchMedia('(hover: hover)') unguarded.
detectDeviceThrows == ~hasMatchMedia

\* detectDevice, detectScreen and optimizeInterface, the first three steps
\* of init(); they have run when loadTheme raises.
detected(o, e) ==
    optimizeInterface([o EXCEPT !.deviceInfo = detectDevice(e),
                                !.screenInfo = detectScreen(e)], e)

DOMContentLoaded ==
    /\ phase = "loading"
    /\ hist' = Remember("DOMContentLoaded", <<>>)
    /\ UNCHANGED <<dom, hasMatchMedia, prefersDark, env, clip, toasts>>
    /\ IF detectDeviceThrows
       THEN /\ phase' = "failed"
            /\ UNCHANGED <<theme, tabs, faq, opt>>
       ELSE IF applyThemeThrows
       THEN /\ phase' = "failed"
            /\ opt' = detected(opt, env)
            /\ theme' = loadTheme(theme)
            /\ UNCHANGED <<tabs, faq>>
       ELSE /\ phase' = "ready"
            /\ theme' = loadTheme(theme)
            /\ faq' = setupFAQInteractivity(faq)
            /\ tabs' = initializeActiveTab(tabs)
            /\ opt' = LET set == setupDynamicOptimization(detected(opt, env), env)
                      IN  [set EXCEPT !.bodyClasses = @ \cup {"loaded"}]

----------------------------------------------------------------------------
(* Events delivered to the listeners that init() attached *)

\* click on #themeToggle
ThemeToggleClick ==
    /\ phase = "ready"
    /\ dom.themeToggle
    /\ theme.timers < MaxTimers
    /\ theme' = toggleTheme(theme)
    /\ hist' = Remember("toggleTheme", <<>>)
    /\ UNCHANGED <<phase, dom, hasMatchMedia, prefersDark, tabs, faq>>
    /\ opt' = clicked(opt)
    /\ UNCHANGED <<env, clip, toasts>>

\* the setTimeout callback of toggleTheme
TransitionTimeout ==
    /\ phase = "ready"
    /\ theme.timers > 0
    /\ theme' = transitionTimeout(theme)
    /\ hist' = Remember("transitionTimeout", <<>>)
    /\ UNCHANGED <<phase, dom, hasMatchMedia, prefersDark, tabs, faq>>
    /\ UNCHANGED <<env, opt, clip, toasts>>

\* the system color scheme flips and the 'change' listener runs
SystemThemeChange ==
    /\ phase = "ready"
    /\ prefersDark' = ~prefersDark
    /\ theme' = colorSchemeChanged(theme, ~prefersDark)
    /\ hist' = Remember("colorSchemeChange", <<>>)
    /\ UNCHANGED <<phase, dom, hasMatchMedia, tabs, faq>>
    /\ UNCHANGED <<env, opt, clip, toasts>>

\* click on the .tab-button whose data-tab is name
TabClick(name) ==
    /\ phase = "ready"
    /\ name \in dom.buttons
    /\ tabs' = switchTab(tabs, name)
    /\ hist' = Remember("switchTab", name)
    /\ UNCHANGED <<phase, dom, hasMatchMedia, prefersDark, theme, faq>>
    /\ opt' = clicked(opt)
    /\ UNCHANGED <<env, clip, toasts>>

\* a call of the public method on the global instance window.greenMaxWebsite
SwitchTabCall(name) ==
    /\ phase = "ready"
    /\ tabs' = switchTab(tabs, name)
    /\ hist' = Remember("switchTab", name)
    /\ UNCHANGED <<phase, dom, hasMatchMedia, prefersDark, theme, faq>>
    /\ UNCHANGED <<env, opt, clip, toasts>>

\* keydown on the .tab-button whose data-tab is name
TabKeydown(name, key) ==
    /\ phase = "ready"
    /\ name \in dom.buttons
    /\ tabs' = tabKeydown(tabs, name, key)
    /\ hist' = IF key = "Enter" \/ key = " "
               THEN Remember("switchTab", name)
               ELSE Remember("keydown", <<>>)
    /\ UNCHANGED <<phase, dom, hasMatchMedia, prefersDark, theme, faq>>
    /\ UNCHANGED <<env, opt, clip, toasts>>

\* the user navigates to fragment h and the hashchange listener runs
HashChange(h) ==
    /\ phase = "ready"
    /\ h # tabs.hash
    /\ tabs' = hashChanged(tabs, h)
    /\ hist' = Remember("hashchange", h)
    /\ UNCHANGED <<phase, dom, hasMatchMedia, prefersDark, theme, faq>>
    /\ UNCHANGED <<env, opt, clip, toasts>>

\* click on the h4 of item i
FaqClick(i, scrollHeight) ==
    /\ phase = "ready"
    /\ dom.faqH4[i]
    /\ faq' = toggleFAQItem(faq, i, scrollHeight)
    /\ hist' = Remember("toggleFAQItem", <<i>>)
    /\ UNCHANGED <<phase, dom, hasMatchMedia, prefersDark, theme, tabs>>
    /\ opt' = clicked(opt)
    /\ UNCHANGED <<env, clip, toasts>>

\* keydown on the h4 of item i
FaqKeydown(i, key, scrollHeight) ==
    /\ phase = "ready"
    /\ dom.faqH4[i]
    /\ faq' = faqKeydown(faq, i, key, scrollHeight)
    /\ hist' = IF key = "Enter" \/ key = " "
               THEN Remember("toggleFAQItem", <<i>>)
               ELSE Remember("keydown", <<>>)
    /\ UNCHANGED <<phase, dom, hasMatchMedia, prefersDark, theme, tabs>>
    /\ UNCHANGED <<env, opt, clip, toasts>>

\* the window is resized to size and the resize listener runs
Resize(size) ==
    /\ phase = "ready"
    /\ size # <<env.innerWidth, env.innerHeight>>
    /\ resized(opt).resizePending <= MaxTimers
    /\ env' = [env EXCEPT !.innerWidth = size[1], !.innerHeight = size[2]]
    /\ opt' = resized(opt)
    /\ hist' = Remember("resize", <<>>)
    /\ UNCHANGED <<phase, dom, hasMatchMedia, prefersDark, theme, tabs, faq>>
    /\ UNCHANGED <<clip, toasts>>

\* the 150 ms callback of the resize listener
ResizeTimeout ==
    /\ phase = "ready"
    /\ opt.resizePending > 0
    /\ recompute(opt, env).hapticListeners <= MaxListeners
    /\ opt' = recompute(resizeFired(opt), env)
    /\ hist' = Remember("resizeTimeout", <<>>)
    /\ UNCHANGED <<phase, dom, hasMatchMedia, prefersDark, theme, tabs, faq>>
    /\ UNCHANGED <<env, clip, toasts>>

\* the device is turned, which swaps the window's width and height, and the
\* orientationchange listener runs
OrientationChange ==
    /\ phase = "ready"
    /\ opt.orientationPending < MaxTimers
    /\ env' = [env EXCEPT !.innerWidth = env.innerHeight,
                          !.innerHeight = env.innerWidth]
    /\ opt' = [opt EXCEPT !.orientationPending = @ + 1]
    /\ hist' = Remember("orientationchange", <<>>)
    /\ UNCHANGED <<phase, dom, hasMatchMedia, prefersDark, theme, tabs, faq>>
    /\ UNCHANGED <<clip, toasts>>

\* a 100 ms callback of the orientationchange listener
OrientationTimeout ==
    /\ phase = "ready"
    /\ opt.orientationPending > 0
    /\ recompute(opt, env).hapticListeners <= MaxListeners
    /\ opt' = recompute([opt EXCEPT !.orientationPending = @ - 1], env)
    /\ hist' = Remember("orientationTimeout", <<>>)
    /\ UNCHANGED <<phase, dom, hasMatchMedia, prefersDark, theme, tabs, faq>>
    /\ UNCHANGED <<env, clip, toasts>>

\* connection.saveData flips and the connection 'change' listener runs
ConnectionChange ==
    /\ phase = "ready"
    /\ opt.connectionListener
    /\ env' = [env EXCEPT !.saveData = ~@]
    /\ opt' = optimizePerformance(opt, env')
    /\ hist' = Remember("connectionChange", <<>>)
    /\ UNCHANGED <<phase, dom, hasMatchMedia, prefersDark, theme, tabs, faq>>
    /\ UNCHANGED <<clip, toasts>>

\* the getBattery() promise resolves: the then-callback attaches the battery
\* listeners and calls optimizeForBattery
BatteryReady ==
    /\ phase = "ready"
    /\ opt.batteryRequested
    /\ ~opt.batteryListeners
    /\ opt' = optimizeForBattery([opt EXCEPT !.batteryListeners = TRUE], env)
    /\ hist' = Remember("batteryReady", <<>>)
    /\ UNCHANGED <<phase, dom, hasMatchMedia, prefersDark, theme, tabs, faq>>
    /\ UNCHANGED <<env, clip, toasts>>

\* battery.level changes and the levelchange listener runs
LevelChange(level) ==
    /\ phase = "ready"
    /\ opt.batteryListeners
    /\ level # env.batteryLevel
    /\ Len(opt.styles) < MaxStyles
    /\ env' = [env EXCEPT !.batteryLevel = level]
    /\ opt' = optimizeForBattery(opt, env')
    /\ hist' = Remember("levelchange", <<>>)
    /\ UNCHANGED <<phase, dom, hasMatchMedia, prefersDark, theme, tabs, faq>>
    /\ UNCHANGED <<clip, toasts>>

\* battery.charging flips and the chargingchange listener runs
ChargingChange ==
    /\ phase = "ready"
    /\ opt.batteryListeners
    /\ Len(opt.styles) < MaxStyles
    /\ env' = [env EXCEPT !.charging = ~@]
    /\ opt' = optimizeForBattery(opt, env')
    /\ hist' = Remember("chargingchange", <<>>)
    /\ UNCHANGED <<phase, dom, hasMatchMedia, prefersDark, theme, tabs, faq>>
    /\ UNCHANGED <<clip, toasts>>

\* a call of copyToClipboard
CopyToClipboard(api, exec) ==
    /\ Len(clip) < MaxCalls
    /\ clip' = Append(clip, copyToClipboard(api, exec))
    /\ UNCHANGED <<phase, dom, hasMatchMedia, prefersDark, theme, tabs, faq>>
    /\ UNCHANGED <<hist, env, opt, toasts>>

\* the promise of navigator.clipboard.writeText of call k settles
WriteSettles(k, fulfilled) ==
    /\ k \in 1 .. Len(clip)
    /\ clip[k].write = "pending"
    /\ clip' = [clip EXCEPT ![k] = writeSettled(@, fulfilled)]
    /\ UNCHANGED <<phase, dom, hasMatchMedia, prefersDark, theme, tabs, faq>>
    /\ UNCHANGED <<hist, env, opt, toasts>>

\* a call of showNotification
ShowNotification(type) ==
    /\ Len(toasts) < MaxToasts
    /\ toasts' = Append(toasts, showNotification(type))
    /\ UNCHANGED <<phase, dom, hasMatchMedia, prefersDark, theme, tabs, faq>>
    /\ UNCHANGED <<hist, env, opt, clip>>

\* the 100 ms timer of toast k fires; timers of equal delay fire in the order
\* they were set, so it waits for the 100 ms timer of every earlier toast
AnimateInTimeout(k) ==
    /\ k \in 1 .. Len(toasts)
    /\ toasts[k].animatePending
    /\ \A j \in 1 .. (k - 1) : ~toasts[j].animatePending
    /\ toasts' = [toasts EXCEPT ![k] = animateIn(@)]
    /\ UNCHANGED <<phase, dom, hasMatchMedia, prefersDark, theme, tabs, faq>>
    /\ UNCHANGED <<hist, env, opt, clip>>

\* the 3000 ms timer of toast k fires, after the 100 ms timer set with it
DismissTimeout(k) ==
    /\ k \in 1 .. Len(toasts)
    /\ toasts[k].dismissPending
    /\ ~toasts[k].animatePending
    /\ \A j \in 1 .. (k - 1) : ~toasts[j].dismissPending
    /\ toasts' = [toasts EXCEPT ![k] = dismiss(@)]
    /\ UNCHANGED <<phase, dom, hasMatchMedia, prefersDark, theme, tabs, faq>>
    /\ UNCHANGED <<hist, env, opt, clip>>

\* the 300 ms timer of toast k fires
RemoveTimeout(k) ==
    /\ k \in 1 .. Len(toasts)
    /\ toasts[k].removePending
    /\ \A j \in 1 .. (k - 1) : ~toasts[j].removePending
    /\ toasts' = [toasts EXCEPT ![k] = remove(@)]
    /\ UNCHANGED <<phase, dom, hasMatchMedia, prefersDark, theme, tabs, faq>>
    /\ UNCHANGED <<hist, env, opt, clip>>

----------------------------------------------------------------------------
(* Initial states: the fields the constructor assigns (lines 3-6), the page *)
(* as served, and the environment.                                          *)

InitialTheme(stored, marker) ==
    [currentTheme |-> "light", storage |-> stored, dataTheme |-> marker,
     iconClass |-> "fas fa-moon", transition |-> "", timers |-> 0]

InitialTabs(h, markedButtons, markedPanels) ==
    [currentTab |-> general, activeButtons |-> markedButtons,
     activePanels |-> markedPanels, hash |-> h, scrolledTo |-> None]

InitialFaq(open) ==
    [i \in Items |->
        [active |-> open[i], tabindex |-> None, role |-> None,
         ariaExpanded |-> None, maxHeight |-> None]]

\* The page the script is written for: every element it looks up exists.
FullPage ==
    [themeToggle |-> TRUE, themeIcon |-> TRUE,
     buttons |-> validTabs, panels |-> validTabs,
     faqH4 |-> [i \in Items |-> TRUE], faqAnswer |-> [i \in Items |-> TRUE]]

\* A desktop browser without touch, battery or connection information.
DesktopEnv ==
    [userAgent |-> <<"windows", "chrome">>, hasTouch |-> FALSE,
     canVibrate |-> FALSE, pixelRatio |-> 2, connection |-> FALSE,
     saveData |-> FALSE, reducedMotion |-> FALSE, hasBattery |-> FALSE,
     batteryLevel |-> 80, charging |-> TRUE,
     innerWidth |-> 1300, innerHeight |-> 900]

\* The constructor's deviceInfo and screenInfo (lines 5-6) and the document
\* before the script has touched it, with the body classes of the markup.
InitialOpt(classes) ==
    [deviceInfo |-> EmptyDeviceInfo, screenInfo |-> EmptyScreenInfo,
     bodyClasses |-> classes, styles |-> <<>>,
     hapticListeners |-> 0, vibrateCalls |-> 0,
     overflowScrolling |-> "", scrollBehavior |-> "",
     resizePending |-> 0, resizeHandleLive |-> FALSE, orientationPending |-> 0,
     connectionListener |-> FALSE, batteryRequested |-> FALSE,
     batteryListeners |-> FALSE]

\* No copyToClipboard call and no notification so far.
NoUtilities ==
    /\ clip = <<>>
    /\ toasts = <<>>

\* The parts outside a slice: a desktop browser, an untouched document.
PlainOptimizer ==
    /\ env = DesktopEnv
    /\ opt = InitialOpt({})

\* Body classes of the markup before the script runs: none, or classes of
\* the four groups left by a server-side guess, beside an unrelated class.
StaleClasses ==
    {{},
     {"device-mobile", "touch-device", "orientation-portrait", "screen-xs",
      "screen-sm", "page"}}

\* Browsers whose window changes: a desktop, a phone and a tablet, with and
\* without touch, in a narrow and in a wide window.
ScreenEnvs ==
    {[DesktopEnv EXCEPT !.userAgent = ua, !.hasTouch = touch,
                        !.innerWidth = size[1], !.innerHeight = size[2]] :
        ua \in {<<"windows", "chrome">>, <<"iphone", "mobile">>, <<"android">>},
        touch \in BOOLEAN,
        size \in {<<400, 700>>, <<1100, 700>>}}

\* Marker-class inputs vary: the browser, the window and the classes the
\* body carries before the script runs.
InitScreen ==
    /\ phase = "loading"
    /\ hist = <<>>
    /\ NoUtilities
    /\ hasMatchMedia = TRUE
    /\ prefersDark = FALSE
    /\ dom = FullPage
    /\ env \in ScreenEnvs
    /\ \E classes \in StaleClasses : opt = InitialOpt(classes)
    /\ theme = InitialTheme(None, None)
    /\ tabs = InitialTabs(<<>>, {general}, {general})
    /\ faq = InitialFaq([i \in Items |-> FALSE])

\* Hand-held browsers: with and without touch, vibration, connection
\* information, a reduced-motion preference, at a low and a high pixel ratio.
TouchEnvs ==
    {[DesktopEnv EXCEPT !.userAgent = ua, !.hasTouch = touch,
                        !.canVibrate = vibrate, !.pixelRatio = ratio,
                        !.connection = connection, !.reducedMotion = reduced,
                        !.innerWidth = 400, !.innerHeight = 700] :
        ua \in {<<"iphone", "mobile">>, <<"android">>},
        touch \in BOOLEAN, vibrate \in BOOLEAN, ratio \in {1, 3},
        connection \in BOOLEAN, reduced \in BOOLEAN}

\* Style-block and haptic inputs vary: the capabilities of the browser.
InitTouch ==
    /\ phase = "loading"
    /\ hist = <<>>
    /\ NoUtilities
    /\ hasMatchMedia = TRUE
    /\ prefersDark = FALSE
    /\ dom = FullPage
    /\ env \in TouchEnvs
    /\ opt = InitialOpt({})
    /\ theme = InitialTheme(None, None)
    /\ tabs = InitialTabs(<<>>, {general}, {general})
    /\ faq = InitialFaq([i \in Items |-> FALSE])

\* Battery inputs vary: the level, whether the device is charging, and
\* whether the browser gives connection information.
InitBattery ==
    /\ phase = "loading"
    /\ hist = <<>>
    /\ NoUtilities
    /\ hasMatchMedia = TRUE
    /\ prefersDark = FALSE
    /\ dom = FullPage
    /\ \E level \in BatteryLevels, charging \in BOOLEAN, connection \in BOOLEAN :
          env = [DesktopEnv EXCEPT !.hasBattery = TRUE,
                                   !.batteryLevel = level,
                                   !.charging = charging,
                                   !.connection = connection]
    /\ opt = InitialOpt({})
    /\ theme = InitialTheme(None, None)
    /\ tabs = InitialTabs(<<>>, {general}, {general})
    /\ faq = InitialFaq([i \in Items |-> FALSE])

\* The utility functions are called on the page before the controller
\* starts; nothing of the controller takes part.
InitUtilities ==
    /\ phase = "loading"
    /\ hist = <<>>
    /\ PlainOptimizer
    /\ NoUtilities
    /\ hasMatchMedia = TRUE
    /\ prefersDark = FALSE
    /\ dom = FullPage
    /\ theme = InitialTheme(None, None)
    /\ tabs = InitialTabs(<<>>, {general}, {general})
    /\ faq = InitialFaq([i \in Items |-> FALSE])

\* Theme inputs vary; the rest of the page is the full page.
InitTheme ==
    /\ phase = "loading"
    /\ hist = <<>>
    /\ PlainOptimizer
    /\ NoUtilities
    /\ hasMatchMedia \in BOOLEAN
    /\ prefersDark \in BOOLEAN
    /\ \E toggle \in BOOLEAN, icon \in BOOLEAN :
          dom = [FullPage EXCEPT !.themeToggle = toggle, !.themeIcon = icon]
    /\ \E stored \in StoredValues, marker \in {None, Some("dark")} :
          theme = InitialTheme(stored, marker)
    /\ tabs = InitialTabs(<<>>, {general}, {general})
    /\ faq = InitialFaq([i \in Items |-> FALSE])

\* Tab inputs vary: which buttons and panels the page has, which are marked
\* active in the markup, and the fragment of the URL.
InitTabs ==
    /\ phase = "loading"
    /\ hist = <<>>
    /\ PlainOptimizer
    /\ NoUtilities
    /\ hasMatchMedia = TRUE
    /\ prefersDark = FALSE
    /\ \E buttons \in SUBSET TabNames, panels \in SUBSET TabNames :
          /\ dom = [FullPage EXCEPT !.buttons = buttons, !.panels = panels]
          /\ \E h \in Hashes, marked \in {{}, {pricing}} :
                tabs = InitialTabs(h, marked \cap buttons, marked \cap panels)
    /\ theme = InitialTheme(None, None)
    /\ faq = InitialFaq([i \in Items |-> FALSE])

\* FAQ inputs vary: which items have a heading and an answer, and which
\* carry the 'active' class in the markup.
InitFaq ==
    /\ phase = "loading"
    /\ hist = <<>>
    /\ PlainOptimizer
    /\ NoUtilities
    /\ hasMatchMedia = TRUE
    /\ prefersDark = FALSE
    /\ \E h4 \in [Items -> BOOLEAN], answer \in [Items -> BOOLEAN] :
          dom = [FullPage EXCEPT !.faqH4 = h4, !.faqAnswer = answer]
    /\ theme = InitialTheme(None, None)
    /\ tabs = InitialTabs(<<>>, {general}, {general})
    /\ \E open \in [Items -> BOOLEAN] : faq = InitialFaq(open)

\* The whole controller on the full page.
Init ==
    /\ phase = "loading"
    /\ hist = <<>>
    /\ PlainOptimizer
    /\ NoUtilities
    /\ hasMatchMedia = TRUE
    /\ prefersDark \in BOOLEAN
    /\ dom = FullPage
    /\ theme = InitialTheme(None, None)
    /\ tabs = InitialTabs(<<>>, {general}, {general})
    /\ faq = InitialFaq([i \in Items |-> FALSE])

ThemeNext ==
    \/ DOMContentLoaded
    \/ ThemeToggleClick
    \/ TransitionTimeout
    \/ SystemThemeChange

TabsNext ==
    \/ DOMContentLoaded
    \/ \E name \in TabNames : TabClick(name)
    \/ \E name \in TabNames \cup {unknown} : SwitchTabCall(name)
    \/ \E name \in TabNames, key \in Keys : TabKeydown(name, key)
    \/ \E h \in Hashes : HashChange(h)

FaqNext ==
    \/ DOMContentLoaded
    \/ \E i \in Items, scrollHeight \in ScrollHeights : FaqClick(i, scrollHeight)
    \/ \E i \in Items, key \in Keys, scrollHeight \in ScrollHeights :
          FaqKeydown(i, key, scrollHeight)

ScreenNext ==
    \/ DOMContentLoaded
    \/ \E size \in Sizes : Resize(size)
    \/ ResizeTimeout
    \/ OrientationChange
    \/ OrientationTimeout

TouchNext ==
    \/ DOMContentLoaded
    \/ \E size \in {<<400, 700>>, <<800, 800>>} : Resize(size)
    \/ ResizeTimeout
    \/ OrientationChange
    \/ OrientationTimeout
    \/ ConnectionChange
    \/ TabClick(general)

BatteryNext ==
    \/ DOMContentLoaded
    \/ BatteryReady
    \/ \E level \in BatteryLevels : LevelChange(level)
    \/ ChargingChange
    \/ ConnectionChange

ClipNext ==
    \/ \E api \in BOOLEAN, exec \in ExecOutcomes : CopyToClipboard(api, exec)
    \/ \E k \in 1 .. MaxCalls, fulfilled \in BOOLEAN : WriteSettles(k, fulfilled)

ToastsNext ==
    \/ \E type \in ToastTypes : ShowNotification(type)
    \/ \E k \in 1 .. MaxToasts : AnimateInTimeout(k)
    \/ \E k \in 1 .. MaxToasts : DismissTimeout(k)
    \/ \E k \in 1 .. MaxToasts : RemoveTimeout(k)

Next ==
    \/ DOMContentLoaded
    \/ ThemeToggleClick
    \/ TransitionTimeout
    \/ SystemThemeChange
    \/ \E name \in TabNames : TabClick(name)
    \/ \E name \in TabNames \cup {unknown} : SwitchTabCall(name)
    \/ \E name \in TabNames, key \in Keys : TabKeydown(name, key)
    \/ \E h \in Hashes : HashChange(h)
    \/ \E i \in Items, scrollHeight \in ScrollHeights : FaqClick(i, scrollHeight)
    \/ \E i \in Items, key \in Keys, scrollHeight \in ScrollHeights :
          FaqKeydown(i, key, scrollHeight)
    \/ \E size \in Sizes : Resize(size)
    \/ ResizeTimeout
    \/ OrientationChange
    \/ OrientationTimeout
    \/ ConnectionChange
    \/ BatteryReady
    \/ \E level \in BatteryLevels : LevelChange(level)
    \/ ChargingChange
    \/ \E api \in BOOLEAN, exec \in ExecOutcomes : CopyToClipboard(api, exec)
    \/ \E k \in 1 .. MaxCalls, fulfilled \in BOOLEAN : WriteSettles(k, fulfilled)
    \/ \E type \in ToastTypes : ShowNotification(type)
    \/ \E k \in 1 .. MaxToasts : AnimateInTimeout(k)
    \/ \E k \in 1 .. MaxToasts : DismissTimeout(k)
    \/ \E k \in 1 .. MaxToasts : RemoveTimeout(k)

\* One specification per part of the controller, each over the inputs that
\* part reads, and the whole controller on the full page.
SpecTheme == InitTheme /\ [][ThemeNext]_vars

SpecTabs == InitTabs /\ [][TabsNext]_vars

SpecFaq == InitFaq /\ [][FaqNext]_vars

SpecScreen == InitScreen /\ [][ScreenNext]_vars

SpecTouch == InitTouch /\ [][TouchNext]_vars

SpecBattery == InitBattery /\ [][BatteryNext]_vars

SpecClip == InitUtilities /\ [][ClipNext]_vars

\* A timer that has been set fires.
ToastsFairness ==
    \A k \in 1 .. MaxToasts :
        /\ WF_vars(AnimateInTimeout(k))
        /\ WF_vars(DismissTimeout(k))
        /\ WF_vars(RemoveTimeout(k))

SpecToasts == InitUtilities /\ [][ToastsNext]_vars /\ ToastsFairness

Spec == Init /\ [][Next]_vars

----------------------------------------------------------------------------
(* Reading the history *)

Ran(op) == Len(hist) > 0 /\ hist[Len(hist)].op = op

Last == hist[Len(hist)]

RanTwice(op) == Len(hist) = 2 /\ hist[1].op = op /\ hist[2].op = op

\* The DOMContentLoaded callback got as far as loadTheme.
LoadThemeRan == Ran("DOMContentLoaded") /\ ~detectDeviceThrows

----------------------------------------------------------------------------
(* Theme claims, checked under SpecTheme *)

\* C1: after loadTheme, two toggleTheme calls in a row leave currentTheme, the
\* body's data-theme marker and the stored preference as they were before the
\* two calls.
C1_ToggleTwiceRestores ==
    RanTwice("toggleTheme") =>
        /\ theme.currentTheme = hist[1].pre.theme.currentTheme
        /\ theme.dataTheme = hist[1].pre.theme.dataTheme
        /\ theme.storage = hist[1].pre.theme.storage

\* C2: when loadTheme runs with nothing stored under 'greenmax-theme', the
\* theme applied (currentTheme and the data-theme marker) is dark if the
\* system prefers dark and light otherwise.
C2_LoadThemeFollowsSystem ==
    (LoadThemeRan /\ IsNone(Last.pre.theme.storage)) =>
        /\ theme.currentTheme = IF prefersDark THEN "dark" ELSE "light"
        /\ theme.dataTheme = IF prefersDark THEN Some("dark") ELSE None

\* C2 witness: nothing stored, the system prefers dark, and loadTheme has set
\* the dark theme and the marker the page did not carry.
C2_Witness ==
    /\ LoadThemeRan
    /\ IsNone(Last.pre.theme.storage)
    /\ IsNone(Last.pre.theme.dataTheme)
    /\ prefersDark
    /\ theme.currentTheme = "dark"
    /\ theme.dataTheme = Some("dark")

\* C3: a system color-scheme change after initialization changes the applied
\* theme to the new preference when the user never set one (storage empty at
\* load, no toggleTheme since), and leaves the theme unchanged otherwise.
C3_SystemChangeFollowedUnlessExplicit ==
    (Len(hist) = 2 /\ hist[2].op = "colorSchemeChange") =>
        IF hist[1].op = "DOMContentLoaded" /\ IsNone(hist[1].pre.theme.storage)
        THEN /\ theme.currentTheme = IF prefersDark THEN "dark" ELSE "light"
             /\ theme.dataTheme = IF prefersDark THEN Some("dark") ELSE None
        ELSE hist[1].op = "toggleTheme" =>
                 /\ theme.currentTheme = hist[2].pre.theme.currentTheme
                 /\ theme.dataTheme = hist[2].pre.theme.dataTheme

\* C4: after loadTheme, whatever localStorage held initially, the value stored
\* under 'greenmax-theme' is 'light' or 'dark' and equals currentTheme.
C4_StoredThemeValid ==
    phase = "ready" =>
        /\ theme.storage \in {Some("light"), Some("dark")}
        /\ theme.storage = Some(theme.currentTheme)

----------------------------------------------------------------------------
(* Tab claims, checked under SpecTabs *)

\* The page has a button and a panel for the name.
HasPair(name) == name \in dom.buttons /\ name \in dom.panels

\* Exactly the button and the panel of the name are marked active.
OnlyActive(name) ==
    /\ tabs.activeButtons = {name}
    /\ tabs.activePanels = {name}

\* C5: for a tab name with a matching button and panel, switchTab(name) from
\* any state leaves exactly that button and that panel active, sets currentTab
\* to the name and the URL fragment to '#' followed by the name; for 'faq' the
\* fragment reads '#faq'.
C5_SwitchTabSelects ==
    (Ran("switchTab") /\ HasPair(Last.arg)) =>
        /\ OnlyActive(Last.arg)
        /\ tabs.currentTab = Last.arg
        /\ tabs.hash = <<"#">> \o Last.arg
        /\ Last.arg = faqTab => tabs.hash = <<"#", "f", "a", "q">>

\* C5 witness: switchTab('faq') ran while 'general' was the selected tab and
\* another panel was still marked active.
C5_Witness ==
    /\ Ran("switchTab")
    /\ Last.arg = faqTab
    /\ HasPair(faqTab)
    /\ Last.pre.tabs.currentTab = general
    /\ Last.pre.tabs.activeButtons = {general}
    /\ tabs.hash = <<"#", "f", "a", "q">>

\* C6: switchTab with a name that has no matching button/panel pair is a
\* no-op: currentTab, the active marking of buttons and panels and the URL
\* fragment are the same as before the call.
C6_UnknownTabIsNoOp ==
    (Ran("switchTab") /\ ~HasPair(Last.arg)) =>
        /\ tabs.currentTab = Last.pre.tabs.currentTab
        /\ tabs.activeButtons = Last.pre.tabs.activeButtons
        /\ tabs.activePanels = Last.pre.tabs.activePanels
        /\ tabs.hash = Last.pre.tabs.hash

\* C7: initializeActiveTab selects 'faq' when the URL fragment is '#faq' and
\* 'general' when the fragment is empty or names nothing in {general, faq};
\* the selected tab is marked active where the page has its button and panel.
C7_InitialTabFromFragment ==
    (Ran("DOMContentLoaded") /\ phase = "ready") =>
        LET fragment == Last.pre.tabs.hash
        IN  /\ fragment = <<"#", "f", "a", "q">> /\ HasPair(faqTab) =>
                   tabs.currentTab = faqTab /\ OnlyActive(faqTab)
            /\ (fragment = <<>> \/ Substring1(fragment) \notin {general, faqTab}) =>
                   /\ tabs.currentTab = general
                   /\ HasPair(general) => OnlyActive(general)

\* C7 witness: the page was loaded with '#faq' and the faq tab is selected.
C7_Witness ==
    /\ Ran("DOMContentLoaded")
    /\ phase = "ready"
    /\ Last.pre.tabs.hash = <<"#", "f", "a", "q">>
    /\ tabs.currentTab = faqTab
    /\ OnlyActive(faqTab)

\* C8: after initialization, through any tab activations and fragment changes
\* (recognized or not), the URL fragment equals '#' followed by currentTab.
\* Stated for the pages that have the button and panel of every tab.
C8_FragmentMirrorsTab ==
    (phase = "ready" /\ \A name \in TabNames : HasPair(name)) =>
        tabs.hash = <<"#">> \o tabs.currentTab

\* The last handler ran switchTab on a name that has a button and a panel.
SwitchSucceeded ==
    \/ Ran("switchTab") /\ HasPair(Last.arg)
    \/ /\ Ran("hashchange")
       /\ Substring1(Last.arg) \in validTabs
       /\ HasPair(Substring1(Last.arg))

\* C8 amended: the fragment equals '#' followed by currentTab after every
\* successful switchTab, and whenever the fragment names a tab of
\* {general, faq} whose button and panel exist; a fragment change to any other
\* value stays in the URL and leaves currentTab as it was.
C8_FragmentMirrorsTabWhenSwitchable ==
    phase = "ready" =>
        /\ (SwitchSucceeded
              \/ (Substring1(tabs.hash) \in validTabs
                    /\ HasPair(Substring1(tabs.hash)))) =>
               tabs.hash = <<"#">> \o tabs.currentTab
        /\ (Ran("hashchange") /\ ~SwitchSucceeded) =>
               /\ tabs.hash = Last.arg
               /\ tabs.currentTab = Last.pre.tabs.currentTab

\* C8 witness: a fragment change to '#faq' moved the selection from general.
C8_Witness ==
    /\ Ran("hashchange")
    /\ Last.arg = <<"#", "f", "a", "q">>
    /\ Last.pre.tabs.currentTab = general
    /\ tabs.currentTab = faqTab
    /\ tabs.hash = <<"#", "f", "a", "q">>

----------------------------------------------------------------------------
(* FAQ claims, checked under SpecFaq *)

\* The last two handler runs were toggleFAQItem on the same item i.
ToggledTwice(i) ==
    /\ RanTwice("toggleFAQItem")
    /\ hist[1].arg = <<i>>
    /\ hist[2].arg = <<i>>

\* C9: for an FAQ item whose aria-expanded attribute is 'false' after
\* setupFAQInteractivity, two toggleFAQItem calls in a row return the attribute
\* to 'false' and the answer's max-height to '0'.
C9_ToggleItemTwiceCollapses ==
    \A i \in Items :
        (ToggledTwice(i) /\ hist[1].pre.faq[i].ariaExpanded = Some("false")) =>
            /\ faq[i].ariaExpanded = Some("false")
            /\ dom.faqAnswer[i] => faq[i].maxHeight = <<"0">>

\* C10: toggling one item, by click or by Enter/Space, flips that item's
\* active class and leaves the class, aria-expanded and max-height of every
\* other item unchanged.
C10_ToggleTouchesOneItem ==
    \A j \in Items :
        (Ran("toggleFAQItem") /\ Last.arg = <<j>>) =>
            /\ faq[j].active = ~Last.pre.faq[j].active
            /\ \A i \in Items \ {j} : faq[i] = Last.pre.faq[i]

\* C10 witness: an item was opened while another was already open, and now
\* every item of the page is open at the same time.
C10_Witness ==
    /\ Ran("toggleFAQItem")
    /\ \E j \in Items :
          /\ Last.arg = <<j>>
          /\ ~Last.pre.faq[j].active
          /\ \E i \in Items \ {j} : Last.pre.faq[i].active
    /\ \A i \in Items : faq[i].active /\ faq[i].ariaExpanded = Some("true")

\* C11: after setupFAQInteractivity, through any item toggles, the
\* aria-expanded attribute of each item's heading is 'true' exactly when the
\* item carries the 'active' class, also for items that carried the class in
\* the page markup.
C11_AriaMatchesActive ==
    phase = "ready" =>
        \A i \in Items :
            dom.faqH4[i] => (faq[i].ariaExpanded = Some("true") <=> faq[i].active)

----------------------------------------------------------------------------
(* Interface optimizer claims *)

\* The low-end or reduced-motion condition of optimizePerformance, for the
\* current device snapshot and connection.
AnimationsSuppressed ==
    \/ opt.deviceInfo.pixelRatio <= 1
    \/ (opt.deviceInfo.connection /\ env.saveData)
    \/ prefersReducedMotion(env)

\* C12: after the initial optimizeInterface call and any number of resize
\* and orientation re-runs, no optimizer style block is duplicated:
\* 'layout-optimization' is in the document exactly once,
\* 'touch-optimization' exactly once on a touch device and not at all
\* otherwise, 'performance-optimization' at most once and exactly once
\* while animations are to be suppressed.
C12_StyleBlocksOnce ==
    phase = "ready" =>
        /\ StyleCount(opt.styles, "layout-optimization") = 1
        /\ StyleCount(opt.styles, "touch-optimization")
              = (IF opt.deviceInfo.hasTouch THEN 1 ELSE 0)
        /\ StyleCount(opt.styles, "performance-optimization") <= 1
        /\ AnimationsSuppressed =>
              StyleCount(opt.styles, "performance-optimization") = 1

\* Two re-runs after the initial call, on a device that gets all three
\* blocks, each still single.
C12_Witness ==
    /\ Len(hist) = 2
    /\ hist[1].op = "resizeTimeout"
    /\ hist[2].op = "orientationTimeout"
    /\ StyleCount(opt.styles, "touch-optimization") = 1
    /\ StyleCount(opt.styles, "performance-optimization") = 1
    /\ StyleCount(opt.styles, "layout-optimization") = 1

\* C13: once the battery callback has run, the document holds at most one
\* 'battery-optimization' style block, and holds one exactly when the body
\* carries the 'low-battery' class.
C13_BatteryStyleReplaceable ==
    opt.batteryListeners =>
        /\ StyleCount(opt.styles, "battery-optimization") <= 1
        /\ StyleCount(opt.styles, "battery-optimization") = 1
              <=> "low-battery" \in opt.bodyClasses

\* The body carries exactly one class of the group.
ExactlyOne(group) == Cardinality(opt.bodyClasses \cap group) = 1

\* C14: after every optimizeInterface call (the initial one and each resize
\* or orientation re-run), whatever classes the body carried before, it
\* carries exactly one class of each of the four groups, the one chosen for
\* the current snapshots.
C14_OneClassPerGroup ==
    (phase = "ready" /\ (Ran("DOMContentLoaded") \/ Ran("resizeTimeout")
                           \/ Ran("orientationTimeout"))) =>
        /\ ExactlyOne(DeviceClasses)
        /\ ExactlyOne(TouchClasses)
        /\ ExactlyOne(OrientationClasses)
        /\ ExactlyOne(ScreenClasses)
        /\ ChosenClasses(opt) \subseteq opt.bodyClasses

\* A re-run on a tablet whose markup carried phone classes: the stale
\* classes are gone, the unrelated class is kept.
C14_Witness ==
    /\ Ran("resizeTimeout")
    /\ "page" \in opt.bodyClasses
    /\ "device-tablet" \in opt.bodyClasses
    /\ "screen-md" \in opt.bodyClasses
    /\ "orientation-landscape" \in opt.bodyClasses

\* C15: with window.matchMedia available, the DOMContentLoaded callback
\* completes initialization whichever elements the page lacks.
C15_InitCompletes ==
    (phase # "loading" /\ hasMatchMedia) => phase = "ready"

\* C18: at most one resize timer is pending; after two resize events in a
\* row exactly one is; and when a resize timer has fired none is pending and
\* the screen snapshot is that of the window after the last event.
C18_ResizeDebounced ==
    /\ opt.resizePending <= 1
    /\ RanTwice("resize") => opt.resizePending = 1
    /\ Ran("resizeTimeout") =>
          /\ opt.resizePending = 0
          /\ opt.screenInfo = detectScreen(env)
          /\ ChosenClasses(opt) \subseteq opt.bodyClasses

\* A burst of two resize events has left a single timer pending, for the
\* window of the last event.
C18_Witness ==
    /\ RanTwice("resize")
    /\ opt.resizePending = 1
    /\ opt.resizeHandleLive
    /\ opt.screenInfo # detectScreen(env)

\* C20: on a touch device that can vibrate, a click on a tab button makes
\* exactly one navigator.vibrate call.
C20_OneVibratePerClick ==
    (Ran("switchTab") /\ opt.deviceInfo.hasTouch /\ opt.deviceInfo.canVibrate) =>
        opt.vibrateCalls = 1

----------------------------------------------------------------------------
(* Utility function claims *)

\* C16: no call of copyToClipboard raises, and a settled call has returned
\* a boolean: true when the clipboard write was fulfilled, the result of
\* execCommand when the clipboard API is unavailable and the fallback ran,
\* false when the write was rejected or execCommand threw.
C16_CopyReturnsBoolean ==
    \A k \in 1 .. Len(clip) :
        LET call == clip[k]
        IN  /\ ~call.raised
            /\ call.stage = "settled" =>
                  /\ call.value \in {Some(TRUE), Some(FALSE)}
                  /\ call.write = "fulfilled" => call.value = Some(TRUE)
                  /\ ~call.api => call.fallback
                  /\ (call.fallback /\ call.exec # "throws") =>
                        call.value = Some(call.exec = "true")
                  /\ (call.write = "rejected"
                        \/ (call.fallback /\ call.exec = "throws")) =>
                        call.value = Some(FALSE)

\* One call whose write was rejected and one whose execCommand returned
\* true, both settled.
C16_Witness ==
    /\ Len(clip) = 2
    /\ clip[1].write = "rejected" /\ clip[1].value = Some(FALSE)
    /\ clip[2].fallback /\ clip[2].exec = "true" /\ clip[2].value = Some(TRUE)

\* C17: a toast is in the page from its creation until its single removal,
\* is never removed twice, and every toast shown is eventually out of the
\* page, also when several are shown before the first is removed.
C17_ToastEventuallyRemoved ==
    /\ [](\A k \in 1 .. Len(toasts) :
             /\ toasts[k].removals <= 1
             /\ toasts[k].inPage <=> toasts[k].removals = 0)
    /\ \A k \in 1 .. MaxToasts :
          (Len(toasts) >= k) ~> (Len(toasts) >= k /\ ~toasts[k].inPage)

\* The first toast has been removed, once, while the second has slid out
\* and waits for its removal timer.
C17_Witness ==
    /\ Len(toasts) >= 2
    /\ ~toasts[1].inPage /\ toasts[1].removals = 1
    /\ toasts[2].inPage /\ toasts[2].removePending

\* C19 as stated: whenever the clipboard write did not succeed, because the
\* API is unavailable or because the write was rejected, the fallback was
\* attempted and its result returned.
C19_FallbackWheneverWriteFails ==
    \A k \in 1 .. Len(clip) :
        LET call == clip[k]
        IN  (call.stage = "settled" /\ (~call.api \/ call.write = "rejected")) =>
                /\ call.fallback
                /\ call.value = Some(call.exec = "true")

\* C19, amended: the fallback is attempted exactly when the clipboard API is
\* unavailable, and then its result is returned (false when execCommand
\* throws); when the API is available the fallback is never attempted and a
\* rejected write returns false.
C19_FallbackOnlyWhenUnavailable ==
    \A k \in 1 .. Len(clip) :
        LET call == clip[k]
        IN  call.stage = "settled" =>
                /\ ~call.api => (call.fallback
                                   /\ call.value = Some(call.exec = "true"))
                /\ call.api => (~call.fallback
                                  /\ call.value = Some(call.write = "fulfilled"))

\* A rejected write with a working execCommand: no fallback, false returned.
C19_Witness ==
    \E k \in 1 .. Len(clip) :
        /\ clip[k].write = "rejected"
        /\ clip[k].exec = "true"
        /\ ~clip[k].fallback
        /\ clip[k].value = Some(FALSE)

----------------------------------------------------------------------------
(* Implicit claims on the performance block and the clipboard textarea *)

\* C21: after initialization, and so after every optimizePerformance run,
\* the 'performance-optimization' style block is in the document exactly
\* when the device is low-end (pixel ratio <= 1 or saveData on) or reduced
\* motion is preferred.
C21_PerformanceBlockTracksCondition ==
    phase = "ready" =>
        (StyleCount(opt.styles, "performance-optimization") = 1
            <=> AnimationsSuppressed)

\* C22: when a call of copyToClipboard has completed, its temporary
\* textarea is not in the document.
C22_NoTextAreaLeft ==
    \A k \in 1 .. Len(clip) :
        clip[k].stage = "settled" => ~clip[k].textAreaInPage

====
